---- MODULE Spec2Model ----
(***************************************************************************)
(* mongoose-taggable: the tag derivation pipeline of lib/index.js          *)
(* (words, removeStopwords, normalizeTags, removeBlacklist, tagFrom*Field, *)
(* tagFromFields, tag, untag, the pre-hook), modelled on JavaScript values.*)
(*                                                                         *)
(* A JavaScript string is a sequence of one-character strings.  A          *)
(* JavaScript value is a record whose field k names its kind:              *)
(*   undefined, null, string (s), number (n), array (a: sequence of        *)
(*   values), date (y, m, d: its calendar date), map (m: sequence of       *)
(*   entries key, val), objectid (hex), instance (r: the document it       *)
(*   refers to), thrown (an exception in flight).                          *)
(***************************************************************************)
EXTENDS Integers, Sequences, FiniteSets, TLC

(***************************************************************************)
(* Bounds of the model.                                                    *)
(***************************************************************************)
\* most explicit tags of one call
MaxArgs == 2
\* frames of tag() the call stack holds
MaxStack == 3
\* most explicit tags of a call whose letters are given every case
MaxCaseArgs == 1

(***************************************************************************)
(* Characters: the class \w of the regular expression /\w+/g, and          *)
(* String.prototype.toLowerCase on ASCII.                                  *)
(***************************************************************************)
LowerLetters ==
  <<"a","b","c","d","e","f","g","h","i","j","k","l","m",
    "n","o","p","q","r","s","t","u","v","w","x","y","z">>

UpperLetters ==
  <<"A","B","C","D","E","F","G","H","I","J","K","L","M",
    "N","O","P","Q","R","S","T","U","V","W","X","Y","Z">>

Digits == {"0","1","2","3","4","5","6","7","8","9"}

Range(f) == { f[i] : i \in DOMAIN f }

LowerSet == Range(LowerLetters)

UpperSet == Range(UpperLetters)

WordChars == LowerSet \cup UpperSet \cup Digits \cup {"_"}

\* the lower case letter of each upper case letter
LowerCaseOf ==
  [c \in UpperSet |->
     LowerLetters[CHOOSE i \in DOMAIN UpperLetters : UpperLetters[i] = c]]

toLowerCaseChar(c) == IF c \in UpperSet THEN LowerCaseOf[c] ELSE c

toLowerCase(s) == [i \in DOMAIN s |-> toLowerCaseChar(s[i])]

(***************************************************************************)
(* JavaScript values.                                                      *)
(***************************************************************************)
Undefined == [k |-> "undefined"]
Null == [k |-> "null"]
Str(s) == [k |-> "string", s |-> s]
Arr(a) == [k |-> "array", a |-> a]
Num(n) == [k |-> "number", n |-> n]
Date(y, m, d) == [k |-> "date", y |-> y, m |-> m, d |-> d]
Map(m) == [k |-> "map", m |-> m]
ObjectId(h) == [k |-> "objectid", hex |-> h]
Inst(r) == [k |-> "instance", r |-> r]

isString(v) == v.k = "string"
isArray(v) == v.k = "array"
isNumber(v) == v.k = "number"
isDate(v) == v.k = "date"
isMap(v) == v.k = "map"
isObjectId(v) == v.k = "objectid"
isInstance(v) == v.k = "instance"

\* the exception an extractor or the engine throws
Thrown == [k |-> "thrown"]

\* ToBoolean: undefined, null, '' and 0 are falsy, every object is truthy
Truthy(v) ==
  ~ \/ v.k \in {"undefined", "null"}
    \/ v.k = "string" /\ v.s = <<>>
    \/ v.k = "number" /\ v.n = 0

\* the decimal digits of a natural number
DigitOf == <<"0","1","2","3","4","5","6","7","8","9">>

RECURSIVE Decimal(_)
Decimal(n) ==
  IF n < 10 THEN <<DigitOf[n + 1]>>
  ELSE Decimal(n \div 10) \o <<DigitOf[(n % 10) + 1]>>

RECURSIVE JoinStrings(_, _)
JoinStrings(ss, sep) ==
  IF ss = <<>> THEN <<>>
  ELSE IF Len(ss) = 1 THEN ss[1]
  ELSE ss[1] \o sep \o JoinStrings(Tail(ss), sep)

\* String(value): an array is joined with ',' and its null and undefined
\* elements are rendered as ''
RECURSIVE String(_, _)
String(v, inArray) ==
  CASE v.k = "string" -> v.s
    [] v.k = "array" ->
         JoinStrings([i \in DOMAIN v.a |-> String(v.a[i], TRUE)], <<",">>)
    [] v.k = "null" -> IF inArray THEN <<>> ELSE <<"n","u","l","l">>
    [] v.k = "undefined" ->
         IF inArray THEN <<>> ELSE <<"u","n","d","e","f","i","n","e","d">>
    [] v.k = "number" -> Decimal(v.n)
    [] v.k = "objectid" -> v.hex
    [] OTHER -> <<"[","o","b","j","e","c","t"," ","O","b","j","e","c","t","]">>

\* a baseToString that joins the elements of an array with nothing between
baseToString_glue(v) ==
  CASE v.k = "string" -> v.s
    [] v.k = "array" ->
         JoinStrings([i \in DOMAIN v.a |-> String(v.a[i], FALSE)], <<>>)
    [] OTHER -> String(v, FALSE)

\* lodash baseToString: inside an array null is 'null', undefined 'undefined'
RECURSIVE baseToString(_)
baseToString(v) ==
  CASE v.k = "string" -> v.s
    [] v.k = "array" ->
         JoinStrings([i \in DOMAIN v.a |-> baseToString(v.a[i])], <<",">>)
    [] OTHER -> String(v, FALSE)

\* lodash toString: null and undefined at top level are ''
toString(v) ==
  IF v.k \in {"undefined", "null"} THEN <<>> ELSE baseToString(v)

\* a toLower that keeps the case
toLower_keepCase(v) == toString(v)

\* lodash toLower
toLower(v) == toLowerCase(toString(v))

\* lodash compact
RECURSIVE compact(_)
compact(vs) ==
  IF vs = <<>> THEN <<>>
  ELSE (IF Truthy(Head(vs)) THEN <<Head(vs)>> ELSE <<>>) \o compact(Tail(vs))

\* lodash flattenDeep
RECURSIVE flattenDeep(_)
flattenDeep(vs) ==
  IF vs = <<>> THEN <<>>
  ELSE (IF isArray(Head(vs)) THEN flattenDeep(Head(vs).a) ELSE <<Head(vs)>>)
         \o flattenDeep(Tail(vs))

\* lodash uniq: the first occurrence of each value, in order
RECURSIVE uniqFrom(_, _)
uniqFrom(vs, seen) ==
  IF vs = <<>> THEN <<>>
  ELSE IF Head(vs) \in seen THEN uniqFrom(Tail(vs), seen)
  ELSE <<Head(vs)>> \o uniqFrom(Tail(vs), seen \cup {Head(vs)})

\* a uniq that keeps every occurrence
uniq_keepAll(vs) == vs

\* a uniq that keeps the last occurrence of each value
uniq_last(vs) ==
  LET keep == { i \in DOMAIN vs : \A j \in (i + 1)..Len(vs) : vs[j] # vs[i] }
  IN [k \in 1..Cardinality(keep) |->
        vs[CHOOSE i \in keep : Cardinality({ j \in keep : j < i }) = k - 1]]

uniq(vs) == uniqFrom(vs, {})

\* lodash difference on an array value; anything else gives []
RECURSIVE without(_, _)
without(vs, excluded) ==
  IF vs = <<>> THEN <<>>
  ELSE (IF Head(vs) \in excluded THEN <<>> ELSE <<Head(vs)>>)
         \o without(Tail(vs), excluded)

difference(array, values) ==
  IF isArray(array) THEN without(array.a, Range(values)) ELSE <<>>

\* Array.prototype.join: null and undefined elements are ''
join(vs, sep) == JoinStrings([i \in DOMAIN vs |-> String(vs[i], TRUE)], sep)

\* Array.prototype.concat with one argument: an array argument is spread
concat(vs, v) == IF isArray(v) THEN vs \o v.a ELSE Append(vs, v)

(***************************************************************************)
(* moment(date).format('dddd MMMM YYYY'): the full weekday name of the     *)
(* calendar date, the full month name and the year.                        *)
(***************************************************************************)
WeekdayNames ==
  << <<"S","u","n","d","a","y">>, <<"M","o","n","d","a","y">>,
     <<"T","u","e","s","d","a","y">>, <<"W","e","d","n","e","s","d","a","y">>,
     <<"T","h","u","r","s","d","a","y">>, <<"F","r","i","d","a","y">>,
     <<"S","a","t","u","r","d","a","y">> >>

MonthNames ==
  << <<"J","a","n","u","a","r","y">>, <<"F","e","b","r","u","a","r","y">>,
     <<"M","a","r","c","h">>, <<"A","p","r","i","l">>, <<"M","a","y">>,
     <<"J","u","n","e">>, <<"J","u","l","y">>, <<"A","u","g","u","s","t">>,
     <<"S","e","p","t","e","m","b","e","r">>, <<"O","c","t","o","b","e","r">>,
     <<"N","o","v","e","m","b","e","r">>, <<"D","e","c","e","m","b","e","r">> >>

\* the offsets of the months in the day-of-week computation
MonthOffsets == <<0, 3, 2, 5, 0, 3, 5, 1, 4, 6, 2, 4>>

\* the day of the week of a Gregorian date, Sunday being 0
weekday(date) ==
  LET y == IF date.m < 3 THEN date.y - 1 ELSE date.y
  IN (y + (y \div 4) - (y \div 100) + (y \div 400)
        + MonthOffsets[date.m] + date.d) % 7

format(date) ==
  WeekdayNames[weekday(date) + 1] \o <<" ">> \o MonthNames[date.m]
    \o <<" ">> \o Decimal(date.y)

(***************************************************************************)
(* words: every maximal run of word characters of String(phrase); null     *)
(* when a truthy phrase has none, [] when the phrase is falsy.             *)
(***************************************************************************)
RECURSIVE match(_, _)
match(s, cur) ==
  IF s = <<>> THEN (IF cur = <<>> THEN <<>> ELSE <<cur>>)
  ELSE IF Head(s) \in WordChars THEN match(Tail(s), Append(cur, Head(s)))
  ELSE (IF cur = <<>> THEN <<>> ELSE <<cur>>) \o match(Tail(s), <<>>)

\* words without the split: a truthy phrase is one word
words_whole(phrase) ==
  IF ~Truthy(phrase) THEN Arr(<<>>) ELSE Arr(<<Str(String(phrase, FALSE))>>)

words(phrase) ==
  IF ~Truthy(phrase) THEN Arr(<<>>)
  ELSE LET m == match(String(phrase, FALSE), <<>>)
       IN IF m = <<>> THEN Null ELSE Arr([i \in DOMAIN m |-> Str(m[i])])

\* the stopword corpus of every language, flattened: the lists are the data
\* of the stopwords-iso package; of the words they hold, these are the ones
\* the tests of the repository have removed (English and, with; Swahili na)
STOPWORDS ==
  <<Str(<<"a", "n", "d">>), Str(<<"w", "i", "t", "h">>), Str(<<"n", "a">>)>>

\* a removeStopwords that only splits the joined phrases again
removeStopwords_none(phrases) ==
  difference(words(Str(join(phrases, <<" ">>))), <<>>)

removeStopwords(phrases) ==
  LET phrase1 == Str(join(phrases, <<" ">>))
      words1 == words(phrase1)
  IN difference(words1, STOPWORDS)

\* the normalizeTags of the first releases, which dropped the stopwords too
normalizeTags_v1(tags) ==
  LET t1 == compact(tags)
      t2 == [i \in DOMAIN t1 |-> Str(toLower(t1[i]))]
      t3 == flattenDeep([i \in DOMAIN t2 |-> words(t2[i])])
  IN uniq(difference(Arr(t3), STOPWORDS))

normalizeTags(tags) ==
  LET t1 == compact(tags)
      t2 == [i \in DOMAIN t1 |-> Str(toLower(t1[i]))]
      t3 == flattenDeep([i \in DOMAIN t2 |-> words(t2[i])])
  IN uniq(t3)

\* a removeBlacklist that compares with the blacklist as it was written
removeBlacklist_raw(phrase, blacklist) ==
  difference(Arr(normalizeTags(<<phrase>>)), blacklist)

removeBlacklist(phrase, blacklist) ==
  LET blacklist1 == normalizeTags(blacklist)
      phrase1 == normalizeTags(<<phrase>>)
  IN difference(Arr(phrase1), blacklist1)

(***************************************************************************)
(* Schemas.  A declaration lists the fields of a document type in order,   *)
(* each with its path (a sequence of keys: name.given is <<"name",         *)
(* "given">>) and its taggable option: "no", "yes" (taggable: true) or the *)
(* name of a custom extractor function; "fn_none" is v => undefined and    *)
(* "fn_mark" is v => `${v}js`.                                             *)
(***************************************************************************)
Records == {"post", "user"}

TypeOf(r) == IF r = "post" THEN "Post" ELSE "User"

\* the booleans of the schema options, as values beside strings
True == [k |-> "boolean", b |-> TRUE]
False == [k |-> "boolean", b |-> FALSE]

defaultTaggableOptions ==
  [path |-> "tags", blacklist |-> Arr(<<>>), index |-> True,
   duplicate |-> False, searchable |-> True, exportable |-> False,
   hide |-> True, fresh |-> FALSE, hook |-> "validate"]

\* the extractor functions: words, or the custom function of the
\* declaration; "fn_none" is v => undefined, "fn_throw" always throws,
\* "fn_mark" is v => `${v}js`
Apply(extract, v) ==
  CASE extract = "words" -> words(v)
    [] extract = "fn_none" -> Undefined
    [] extract = "fn_throw" -> Thrown
    [] extract = "fn_mark" -> Str(String(v, FALSE) \o <<"j", "s">>)

isFunction(optns) == optns \in {"fn_none", "fn_throw", "fn_mark"}

\* a collectTaggables that registers the tag field as well when it is
\* declared taggable
RECURSIVE collectTaggables_all(_, _)
collectTaggables_all(decl, tagsPath) ==
  IF decl = <<>> THEN <<>>
  ELSE LET f == Head(decl)
       IN (IF f.taggable # "no"
             THEN <<[pathName |-> f.pathName,
                     extract |-> IF isFunction(f.taggable) THEN f.taggable
                                                           ELSE "words"]>>
             ELSE <<>>)
          \o collectTaggables_all(Tail(decl), tagsPath)

\* collectTaggables: the declared fields with a truthy taggable option, other
\* than the tag field itself, each with its extractor
RECURSIVE collectTaggables(_, _)
collectTaggables(decl, tagsPath) ==
  IF decl = <<>> THEN <<>>
  ELSE LET f == Head(decl)
           isTaggable == f.taggable # "no"
       IN (IF isTaggable /\ f.pathName # <<tagsPath>>
             THEN <<[pathName |-> f.pathName,
                     extract |-> IF isFunction(f.taggable) THEN f.taggable
                                                           ELSE "words"]>>
             ELSE <<>>)
          \o collectTaggables(Tail(decl), tagsPath)

\* the spread [...value] of an array or of a string (its characters)
spread(v) ==
  IF isArray(v) THEN v.a ELSE [i \in DOMAIN v.s |-> Str(<<v.s[i]>>)]

\* a taggable whose defaults win over the options of the caller
taggable_defaults(decl, optns, BLACKLIST) ==
  [paths |-> decl,
   optns |-> optns,
   added |-> [pathName |-> defaultTaggableOptions.path, type |-> "[String]",
              index |-> defaultTaggableOptions.index,
              duplicate |-> defaultTaggableOptions.duplicate,
              searchable |-> defaultTaggableOptions.searchable,
              exportable |-> defaultTaggableOptions.exportable,
              hide |-> defaultTaggableOptions.hide, default |-> Undefined],
   path |-> defaultTaggableOptions.path,
   fresh |-> defaultTaggableOptions.fresh,
   hook |-> defaultTaggableOptions.hook,
   blacklist |-> BLACKLIST \o spread(defaultTaggableOptions.blacklist),
   TAGGABLE_FIELDS |-> collectTaggables(decl, defaultTaggableOptions.path),
   pre |-> <<[hook |-> defaultTaggableOptions.hook, fn |-> "preValidate"]>>]

\* taggable(schema, optns): the options merged over the defaults, the
\* blacklist of the environment before the one of the options, the tag
\* path added to the schema, the registry of the taggable paths and the one
\* pre-hook; optns are the options as the caller gave them
taggable(decl, optns, BLACKLIST) ==
  LET options == [n \in DOMAIN defaultTaggableOptions |->
                    IF n \in DOMAIN optns THEN optns[n]
                                          ELSE defaultTaggableOptions[n]]
  IN [paths |-> decl,
      optns |-> optns,
      added |-> [pathName |-> options.path, type |-> "[String]",
                 index |-> options.index, duplicate |-> options.duplicate,
                 searchable |-> options.searchable,
                 exportable |-> options.exportable, hide |-> options.hide,
                 default |-> Undefined],
      path |-> options.path,
      fresh |-> options.fresh,
      hook |-> options.hook,
      blacklist |-> BLACKLIST \o spread(options.blacklist),
      TAGGABLE_FIELDS |-> collectTaggables(decl, options.path),
      pre |-> <<[hook |-> options.hook, fn |-> "preValidate"]>>]

(***************************************************************************)
(* State.                                                                  *)
(*   schemas  the schema of each document type after attachment            *)
(*   docs     the documents the host has constructed: their field values   *)
(*   tags     the value of the tag field (at the configured path) of each  *)
(*   tagged   the documents on which a tag() call has returned             *)
(*   last     the last call made since a field was assigned: its kind, its  *)
(*            document, its number of explicit tags, whether it threw      *)
(***************************************************************************)
VARIABLES schemas, docs, tags, tagged, last

vars == <<schemas, docs, tags, tagged, last>>

Live == DOMAIN docs

\* lodash get: the value at a path of keys
RECURSIVE get(_, _)
get(object, pathName) ==
  IF pathName = <<>> THEN object
  ELSE get(object[Head(pathName)], Tail(pathName))

\* instance.tags: the property named 'tags' of a document
PropTags(tg, r) == IF schemas[TypeOf(r)].path = "tags" THEN tg[r] ELSE Undefined

\* an exception is in flight in a list of candidates
Threw(candidates) == Thrown \in Range(candidates)

\* a tagFromAnyField that reads string values only
tagFromAnyField_strings(value, extract) ==
  IF Truthy(value) /\ isString(value)
    THEN concat(<<>>, Apply(extract, value)) ELSE <<>>

\* a tagFromAnyField that reads every string, number and array, the empty
\* string too
tagFromAnyField_empty(value, extract) ==
  IF isString(value) \/ isNumber(value) \/ isArray(value)
    THEN concat(<<>>, Apply(extract, value)) ELSE <<>>

tagFromAnyField(value, extract) ==
  LET isValidField ==
        Truthy(value) /\ (isString(value) \/ isNumber(value) \/ isArray(value))
  IN IF isValidField THEN concat(<<>>, Apply(extract, value)) ELSE <<>>

\* a tagFromDateField that leaves the date to the other branches
tagFromDateField_none(value, extract) == <<>>

tagFromDateField(value, extract) ==
  LET isValidField == Truthy(value) /\ isDate(value)
  IN IF isValidField
       THEN concat(<<>>, Apply(extract, Str(format(value)))) ELSE <<>>

\* a traverse that collects the keys of the entries as well
RECURSIVE traverse_keys(_, _, _)
traverse_keys(entries, extract, acc) ==
  IF entries = <<>> \/ Threw(acc) THEN acc
  ELSE LET value == Head(entries).val
           keyed == concat(acc, Apply(extract, Str(Head(entries).key)))
           here == IF isString(value)
                     THEN concat(keyed, Apply(extract, value))
                   ELSE IF isMap(value)
                     THEN traverse_keys(value.m, extract, keyed)
                   ELSE keyed
       IN traverse_keys(Tail(entries), extract, here)

\* traverse(object).forEach: every string node below the entries, in order,
\* through the extractor; an exception ends the walk
RECURSIVE traverse(_, _, _)
traverse(entries, extract, acc) ==
  IF entries = <<>> \/ Threw(acc) THEN acc
  ELSE LET value == Head(entries).val
           here == IF isString(value) THEN concat(acc, Apply(extract, value))
                   ELSE IF isMap(value) THEN traverse(value.m, extract, acc)
                   ELSE acc
       IN traverse(Tail(entries), extract, here)

tagFromMapField(mapVal, extract) ==
  IF Truthy(mapVal) /\ isMap(mapVal) THEN traverse(mapVal.m, extract, <<>>)
  ELSE <<>>

\* a start that keeps the old tags whatever the mode
startTags_keep(fresh, oldTags) == oldTags

\* a start that drops the old tags whatever the mode
startTags_drop(fresh, oldTags) == <<>>

\* a start that keeps the first of the old tags only
startTags_first(fresh, oldTags) ==
  IF fresh \/ oldTags = <<>> THEN <<>> ELSE <<Head(oldTags)>>

\* the accumulator tag() starts from
startTags(fresh, oldTags) == IF fresh THEN <<>> ELSE oldTags

\* old tags that hold the tag field itself when it is no array
oldTags_wrapped(v) == IF isArray(v) THEN v.a ELSE <<v>>

\* the tags of the tag field, none when it is absent
oldTags(v) == IF Truthy(v) THEN v.a ELSE <<>>

RECURSIVE tagFrame(_, _, _, _, _)
RECURSIVE tagFromFields(_, _, _, _, _)

Nothing(tg) == [tags |-> <<>>, tg |-> tg, ran |-> {}, threw |-> FALSE]

\* the candidates harvested from a target whose tag() has returned
harvested(tags1, ran) ==
  [tags |-> tags1, tg |-> ran.tg, ran |-> ran.ran, threw |-> Threw(tags1)]

\* the candidates a populated reference gives once the target's tag() has
\* run: the extractor applied to the target's 'tags' property
harvest(ran, r, extract) ==
  IF ran.threw
    THEN [tags |-> <<>>, tg |-> ran.tg, ran |-> ran.ran, threw |-> TRUE]
    ELSE harvested(concat(<<>>, Apply(extract,
                                      Arr(concat(<<>>, PropTags(ran.tg, r))))),
                   ran)

\* the target's own tag() runs, then its 'tags' property is harvested
tagFromInstanceField(dc, tg, instance, extract, depth) ==
  IF Truthy(instance) /\ isInstance(instance)
    THEN harvest(tagFrame(dc, tg, instance.r, <<>>, depth + 1), instance.r,
                 extract)
    ELSE Nothing(tg)

\* the candidates of the four branches of tagFromField, in their order
gather(map, inst, rest, tg) ==
  IF Threw(map) THEN [Nothing(tg) EXCEPT !.threw = TRUE]
  ELSE IF inst.threw THEN inst
  ELSE [tags |-> map \o inst.tags \o rest, tg |-> inst.tg,
        ran |-> inst.ran, threw |-> Threw(rest)]

\* tagFromField: the candidates of one registered path
tagFromField(dc, tg, value, extract, depth) ==
  IF isObjectId(value) THEN Nothing(tg)
  ELSE gather(tagFromMapField(value, extract),
              tagFromInstanceField(dc, tg, value, extract, depth),
              tagFromDateField(value, extract)
                \o tagFromAnyField(value, extract),
              tg)

\* the candidates of a path followed by those of the paths after it
append(own, rest) ==
  [tags |-> own.tags \o rest.tags, tg |-> rest.tg,
   ran |-> own.ran \cup rest.ran, threw |-> rest.threw]

\* the paths after the first, unless the first threw
forEachRest(own, dc, r, taggables, depth) ==
  IF own.threw THEN own
  ELSE append(own, tagFromFields(dc, own.tg, r, Tail(taggables), depth))

tagFromFields(dc, tg, r, taggables, depth) ==
  IF taggables = <<>> THEN Nothing(tg)
  ELSE forEachRest(tagFromField(dc, tg, get(dc[r], Head(taggables).pathName),
                                Head(taggables).extract, depth),
                   dc, r, taggables, depth)

\* an end of tag() that assigns the tag list to the tag field of every
\* document, as a tag list shared by the documents would be
assign_shared(fromFields, tg, r, explicit) ==
  IF fromFields.threw
    THEN [tg |-> fromFields.tg, ran |-> fromFields.ran, threw |-> TRUE]
    ELSE [tg |-> [x \in DOMAIN tg |->
                    Arr(removeStopwords(
                          removeBlacklist(
                            Arr(startTags(schemas[TypeOf(r)].fresh,
                                          oldTags(tg[r]))
                                  \o explicit \o fromFields.tags),
                            schemas[TypeOf(r)].blacklist)))],
          ran |-> fromFields.ran \cup {r}, threw |-> FALSE]

\* an end of tag() that has stored the old and the explicit tags before the
\* fields were read
assign_early(fromFields, tg, r, explicit) ==
  IF fromFields.threw
    THEN [tg |-> [fromFields.tg EXCEPT ![r] =
                    Arr(startTags(schemas[TypeOf(r)].fresh, oldTags(tg[r]))
                          \o explicit)],
          ran |-> fromFields.ran, threw |-> TRUE]
    ELSE [tg |-> [fromFields.tg EXCEPT ![r] =
                    Arr(removeStopwords(
                          removeBlacklist(
                            Arr(startTags(schemas[TypeOf(r)].fresh,
                                          oldTags(tg[r]))
                                  \o explicit \o fromFields.tags),
                            schemas[TypeOf(r)].blacklist)))],
          ran |-> fromFields.ran \cup {r}, threw |-> FALSE]

\* the end of tag(): the tag field of r is assigned the old, explicit and
\* field tags without the blacklist and the stopwords, unless reading the
\* fields threw
assign(fromFields, tg, r, explicit) ==
  IF fromFields.threw
    THEN [tg |-> fromFields.tg, ran |-> fromFields.ran, threw |-> TRUE]
    ELSE [tg |-> [fromFields.tg EXCEPT ![r] =
                    Arr(removeStopwords(
                          removeBlacklist(
                            Arr(startTags(schemas[TypeOf(r)].fresh,
                                          oldTags(tg[r]))
                                  \o explicit \o fromFields.tags),
                            schemas[TypeOf(r)].blacklist)))],
          ran |-> fromFields.ran \cup {r}, threw |-> FALSE]

\* schema.methods.tag in the frame at the given depth of the call stack, on
\* document r of the documents dc with tag fields tg: the tag fields
\* afterwards, the documents whose tag() has returned and whether the call
\* threw; the engine throws when the stack is full
tagFrame(dc, tg, r, explicit, depth) ==
  IF depth > MaxStack THEN [tg |-> tg, ran |-> {}, threw |-> TRUE]
  ELSE assign(tagFromFields(dc, tg, r, schemas[TypeOf(r)].TAGGABLE_FIELDS,
                            depth),
              tg, r, explicit)

\* doc.tag(...explicit) called by the host
tag(dc, tg, r, explicit) == tagFrame(dc, tg, r, explicit, 1)

\* schema.methods.untag
untag(tg, r, explicit) ==
  LET removed == normalizeTags(explicit)
  IN [tg EXCEPT ![r] = Arr(difference(tg[r], removed))]

\* the registered pre-hook: this.tag()
preValidate(dc, tg, r) == tag(dc, tg, r, <<>>)

(***************************************************************************)
(* Inputs.                                                                 *)
(***************************************************************************)
\* the phrases explicit tags are drawn from: '', '-', 'Boe', 'Js-na'
Phrases == { <<>>, <<"-">>, <<"B", "o", "e">>, <<"J", "s", "-", "n", "a">> }

SeqsUpTo(S, n) == UNION { [1..m -> S] : m \in 0..n }

\* the argument lists of at most n explicit tags
ArgLists(P, n) == SeqsUpTo({ Str(p) : p \in P }, n)

LoneArgLists == ArgLists(Phrases, MaxArgs)

\* the explicit tags used in every other setup: none, 'JS'
RefArgLists == { <<>>, <<Str(<<"J", "S">>)>> }

\* title 'Boe john', given names ['Ninja', 'js'], an unresolved author id
Title == Str(<<"B", "o", "e", " ", "j", "o", "h", "n">>)

Given == Arr(<<Str(<<"N", "i", "n", "j", "a">>), Str(<<"j", "s">>)>>)

AuthorId == ObjectId(<<"b", "a">>)

\* the map { boe: 'Ninja', john: { n: 7, s: 'js' }, e: '' }
Meta ==
  Map(<<[key |-> <<"b", "o", "e">>, val |-> Str(<<"N", "i", "n", "j", "a">>)],
        [key |-> <<"j", "o", "h", "n">>,
         val |-> Map(<<[key |-> <<"n">>, val |-> Num(7)],
                       [key |-> <<"s">>, val |-> Str(<<"j", "s">>)]>>)],
        [key |-> <<"e">>, val |-> Str(<<>>)]>>)

\* the dates 2000-01-01 and 2024-02-29
Dates == {Date(2000, 1, 1), Date(2024, 2, 29)}

\* the values the host gives to a declared field, by its schema type
FieldValues(type) ==
  CASE type = "String" ->
         IF "user" \in Live THEN {Title} ELSE {Undefined, Title}
    [] type = "Mixed" ->
         {Undefined, Null, Str(<<>>), Title, Str(<<"-">>), Num(0), Num(2000)}
    [] type = "[String]" -> {Undefined, Given}
    [] type = "Map" -> {Undefined, Meta}
    [] type = "Date" -> {Undefined} \cup Dates
    [] type = "Post" -> {Undefined, Inst("post")}
    [] type = "User" ->
         IF "user" \in Live THEN {Undefined, AuthorId, Inst("user")} ELSE {}
    [] OTHER -> {}

\* the tag field a document is constructed with: none, or
\* ['na', 'JS js']
RawTags ==
  {Undefined, Arr(<<Str(<<"n", "a">>), Str(<<"J", "S", " ", "j", "s">>)>>)}

Field(pathName, type, taggableOption) ==
  [pathName |-> pathName, type |-> type, taggable |-> taggableOption]

\* the post schemas: title, author, a declared tags path and views; the
\* same with any title and a custom extractor; no taggable path; a map and
\* a date
PostPaths(title) ==
  <<Field(<<"title">>, "String", title), Field(<<"author">>, "User", "yes"),
    Field(<<"tags">>, "[String]", "yes"), Field(<<"views">>, "Number", "no")>>

PostMixedPaths(title) ==
  <<Field(<<"title">>, "Mixed", title), Field(<<"views">>, "Number", "no")>>

PostPlainPaths ==
  <<Field(<<"title">>, "String", "no"), Field(<<"views">>, "Number", "no")>>

PostEventPaths ==
  <<Field(<<"meta">>, "Map", "yes"), Field(<<"published">>, "Date", "yes")>>

\* the post schemas whose paths have the custom extractor "fn_mark": a
\* title, a map and a date; a reference
PostMarkedPaths ==
  <<Field(<<"title">>, "String", "fn_mark"),
    Field(<<"meta">>, "Map", "fn_mark"),
    Field(<<"published">>, "Date", "fn_mark")>>

PostMarkedRefPaths == <<Field(<<"author">>, "User", "fn_mark")>>

\* the user schemas: the given names; a reference to a post; the given
\* names with the custom extractor; no path
UserPaths == <<Field(<<"name", "given">>, "[String]", "yes")>>

UserMarkedPaths == <<Field(<<"name", "given">>, "[String]", "fn_mark")>>

UserPostPaths == <<Field(<<"post">>, "Post", "yes")>>

\* the attachments: the paths and the options of each type and the
\* TAGGABLE_BLACKLIST of the process
Setup(postPaths, postOptns, userPaths, userOptns, env) ==
  [Post |-> taggable(postPaths, postOptns, env),
   User |-> taggable(userPaths, userOptns, env)]

None == [x \in {} |-> x]

\* the blacklist option given as one string: 'Boe'
BlacklistWord == Str(<<"B", "o", "e">>)

\* a post on its own: the setups of the options
CoreSetups ==
  { Setup(PostPaths("yes"), None, UserPaths, None, <<>>),
    Setup(PostPaths("yes"), [fresh |-> TRUE], UserPaths, None, <<>>),
    Setup(PostPaths("yes"), [blacklist |-> Arr(<<Str(<<"J", "S">>)>>)],
          UserPaths, None, <<Str(<<"J", "o", "h", "n">>)>>),
    Setup(PostPaths("fn_none"),
          [fresh |-> TRUE,
           blacklist |-> Arr(<<Str(<<"j", "s", " ", "B", "o", "e">>)>>)],
          UserPaths, None, <<>>) }

\* a post on its own: a throwing extractor and another hook, no taggable
\* path (cumulative and fresh), a blacklist given as one string, a map and
\* a date, a title of any type, custom extractors
FeatureSetups ==
  { Setup(PostMixedPaths("fn_throw"), [hook |-> "save"], UserPaths, None, <<>>),
    Setup(PostPlainPaths, None, UserPaths, None, <<>>),
    Setup(PostPlainPaths, [fresh |-> TRUE], UserPaths, None, <<>>),
    Setup(PostPaths("yes"), [blacklist |-> BlacklistWord],
          UserPaths, None, <<>>),
    Setup(PostEventPaths, [fresh |-> TRUE], UserPaths, None, <<>>),
    Setup(PostMixedPaths("yes"), None, UserPaths, None, <<>>),
    Setup(PostMarkedPaths, [fresh |-> TRUE], UserPaths, None, <<>>) }

LoneSetups == CoreSetups \cup FeatureSetups

\* a post and a user: the defaults, another tag path for the user, a fresh
\* post with a blacklist, a user that refers to the post, a custom extractor
\* on a reference to a user without paths, custom extractors on the
\* reference and on the names of a user with another tag path
PairSetups ==
  { Setup(PostPaths("yes"), None, UserPaths, None, <<>>),
    Setup(PostPaths("yes"), None, UserPaths,
          [path |-> "keywords", index |-> Str(<<"t", "e", "x", "t">>)], <<>>),
    Setup(PostPaths("yes"),
          [fresh |-> TRUE,
           blacklist |-> Arr(<<Str(<<"n", "I", "N", "J", "A">>)>>)],
          UserPaths, None, <<>>),
    Setup(PostPaths("yes"), None, UserPostPaths, None, <<>>),
    Setup(PostMarkedRefPaths, None, <<>>, None, <<>>),
    Setup(PostMarkedRefPaths, None, UserMarkedPaths, [path |-> "keywords"],
          <<>>) }

\* the explicit tags a call is made with
Explicit == IF schemas \in CoreSetups /\ Live = {"post"} THEN LoneArgLists
                                                       ELSE RefArgLists

\* the tag field v holds entries
Held(v) == isArray(v) /\ v.a # <<>>

NoCall ==
  [kind |-> "none", rec |-> "post", n |-> 0, threw |-> FALSE, had |-> FALSE]

\* a document of a type as the host constructs it
NewDoc(type, title) ==
  IF type = "Post"
    THEN [title |-> title, author |-> Undefined, meta |-> Undefined,
          published |-> Undefined]
    ELSE [name |-> [given |-> Undefined], post |-> Undefined]

\* a post on its own
InitLone ==
  /\ schemas \in LoneSetups
  /\ docs = [r \in {"post"} |-> NewDoc("Post", Undefined)]
  /\ tags \in [{"post"} -> RawTags]

\* a post and the user its author field may refer to
InitPair ==
  /\ schemas \in PairSetups
  /\ docs = [r \in Records |-> NewDoc(TypeOf(r), Title)]
  /\ tags = [r \in Records |-> Undefined]

Init ==
  /\ InitLone \/ InitPair
  /\ tagged = {}
  /\ last = NoCall

\* a call of tag() made by the host or by a hook, with its outcome
Call(kind, r, explicit, ran) ==
  /\ tags' = ran.tg
  /\ tagged' = tagged \cup ran.ran
  /\ last' = [kind |-> kind, rec |-> r, n |-> Len(explicit),
              threw |-> ran.threw, had |-> Held(tags[r])]
  /\ UNCHANGED <<schemas, docs>>

\* doc.tag(...explicit)
Tag(r, explicit) == Call("tag", r, explicit, tag(docs, tags, r, explicit))

\* doc.untag(...explicit)
Untag(r, explicit) ==
  /\ tags' = untag(tags, r, explicit)
  /\ last' = [kind |-> "untag", rec |-> r, n |-> Len(explicit),
              threw |-> FALSE, had |-> Held(tags[r])]
  /\ UNCHANGED <<schemas, docs, tagged>>

\* the lifecycle points of a document that a pre-hook can be registered at
Points == {"validate", "save"}

\* the callbacks registered at a point
Callbacks(type, point) ==
  SelectSeq(schemas[type].pre, LAMBDA h : h.hook = point)

\* a document reaches a lifecycle point: the callback registered there runs
Pre(r, point) ==
  IF Callbacks(TypeOf(r), point) = <<>>
    THEN /\ last' = NoCall
         /\ UNCHANGED <<schemas, docs, tags, tagged>>
    ELSE Call(point, r, <<>>, preValidate(docs, tags, r))

\* the host assigns a field of a document
SetField(r, f, v) ==
  /\ get(docs[r], f) # v
  /\ docs' = [docs EXCEPT ![r] =
                IF Len(f) = 1 THEN [@ EXCEPT ![f[1]] = v]
                              ELSE [@ EXCEPT ![f[1]][f[2]] = v]]
  /\ last' = NoCall
  /\ UNCHANGED <<schemas, tags, tagged>>

\* the declared paths of a document other than its tag field
Paths(r) ==
  { f \in Range(schemas[TypeOf(r)].paths) :
      f.pathName # <<schemas[TypeOf(r)].path>> }

Next ==
  \/ \E r \in Live, explicit \in Explicit : Tag(r, explicit)
  \/ \E r \in Live, explicit \in Explicit : Untag(r, explicit)
  \/ \E r \in Live, point \in Points : Pre(r, point)
  \/ \E r \in Live : \E f \in Paths(r) :
       \E v \in FieldValues(f.type) : SetField(r, f.pathName, v)

Spec == Init /\ [][Next]_vars

(***************************************************************************)
(* Vocabulary of the properties, defined without the operators above.      *)
(***************************************************************************)
LowerWordChars == LowerSet \cup Digits \cup {"_"}

\* the two cases of each letter, by its place in the alphabet
Place == [c \in LowerSet \cup UpperSet |->
            CHOOSE i \in 1..26 : c \in {LowerLetters[i], UpperLetters[i]}]

UpperOf(c) == IF c \in LowerSet THEN UpperLetters[Place[c]] ELSE c

LowerOf(c) == IF c \in UpperSet THEN LowerLetters[Place[c]] ELSE c

\* the words of a string: its maximal runs of word characters
WordRuns(s) ==
  { SubSeq(s, p[1], p[2]) :
      p \in { q \in (1..Len(s)) \X (1..Len(s)) :
                /\ q[1] <= q[2]
                /\ \A i \in q[1]..q[2] : s[i] \in WordChars
                /\ q[1] = 1 \/ s[q[1] - 1] \notin WordChars
                /\ q[2] = Len(s) \/ s[q[2] + 1] \notin WordChars } }

\* the lowercase words of a string
Tokens(s) == { [i \in DOMAIN w |-> LowerOf(w[i])] : w \in WordRuns(s) }

StringsOf(v) == IF isArray(v) THEN { x \in Range(v.a) : isString(x) } ELSE {}

\* the strings a tag field holds
TagSet(v) == { x.s : x \in StringsOf(v) }

\* the lowercase words of the strings of an array
TokensOf(v) == UNION { Tokens(x.s) : x \in StringsOf(v) }

StopTokens == { STOPWORDS[i].s : i \in DOMAIN STOPWORDS }

BlacklistTokens(r) == TokensOf(Arr(schemas[TypeOf(r)].blacklist))

\* a word that neither the stopwords nor the blacklist of r's type exclude
Kept(r, w) == w \notin StopTokens /\ w \notin BlacklistTokens(r)

\* the lowercase words of explicit tags
ArgTokens(explicit) == TokensOf(Arr(explicit))

\* the last call was tag() on r, made by the host or by the hook of r's
\* type, and it returned
AfterTag(r) ==
  /\ last.rec = r /\ ~last.threw
  /\ last.kind = "tag" \/ last.kind = schemas[TypeOf(r)].hook

\* what a tag(...explicit) call on r leaves in r's tag field
TagResult(r, explicit) == tag(docs, tags, r, explicit).tg[r]

\* a tag(...explicit) call on r returns
Returns(r, explicit) == ~tag(docs, tags, r, explicit).threw

Canonical(v, r) ==
  /\ isArray(v)
  /\ \A i \in DOMAIN v.a :
       /\ isString(v.a[i])
       /\ v.a[i].s # <<>>
       /\ \A k \in DOMAIN v.a[i].s : v.a[i].s[k] \in LowerWordChars
       /\ Kept(r, v.a[i].s)
       /\ \A j \in DOMAIN v.a : j # i => v.a[j] # v.a[i]

\* the tokens 'js', 'boe', 'john', 'ninja'
TokJs == Str(<<"j", "s">>)
TokBoe == Str(<<"b", "o", "e">>)
TokJohn == Str(<<"j", "o", "h", "n">>)
TokNinja == Str(<<"n", "i", "n", "j", "a">>)

(***************************************************************************)
(* Properties.                                                             *)
(***************************************************************************)
\* C1: once tag() has returned on a document, whatever its tag field held
\* before, the tag field is an array of distinct, non-empty, lowercase word
\* tokens none of which is a stopword or a blacklisted word, and it stays so
\* through every later tag and untag call.
C1_TagFieldCanonical == \A r \in tagged : Canonical(tags[r], r)

C1_CanonicalAfterUntag ==
  /\ "post" \in tagged
  /\ last.kind = "untag"
  /\ Len(tags["post"].a) >= 2

\* C2: right after a tag() call without explicit tags, a second such call
\* leaves the tag field equal to what the first one left, in cumulative and
\* in fresh mode.
C2_TagIdempotent ==
  \A r \in Live : (AfterTag(r) /\ last.n = 0) => TagResult(r, <<>>) = tags[r]

C2_TaggedFromFieldsTwice ==
  /\ AfterTag("post") /\ last.n = 0
  /\ ~schemas.Post.fresh
  /\ docs["post"].title = Title
  /\ tags["post"] = Arr(<<TokJs, TokBoe, TokJohn>>)

\* C3: whatever the explicit tags, the field values and the tags already
\* there, a tag() call that returns leaves no word of a blacklist entry (of the option or
\* of TAGGABLE_BLACKLIST, in any case) in the tag field.
C3_BlacklistExcluded ==
  \A r \in Live : \A explicit \in Explicit :
    LET call == tag(docs, tags, r, explicit)
    IN ~call.threw => TagSet(call.tg[r]) \cap BlacklistTokens(r) = {}

C3_OnlyAllowedTagLeft ==
  /\ AfterTag("post") /\ last.n > 0
  /\ schemas.Post.blacklist = <<Str(<<"J", "o", "h", "n">>), Str(<<"J", "S">>)>>
  /\ docs["post"].title = Title
  /\ tags["post"] = Arr(<<TokBoe>>)

\* C4: a tag() call that returns leaves no stopword in the tag field, and leaves in it
\* every word of its explicit tags that is neither a stopword nor
\* blacklisted.
C4_StopwordsRemoved ==
  \A r \in Live : \A explicit \in Explicit :
    LET call == tag(docs, tags, r, explicit)
        res == TagSet(call.tg[r])
    IN ~call.threw =>
         /\ res \cap StopTokens = {}
         /\ \A w \in ArgTokens(explicit) : Kept(r, w) => w \in res

C4_StopwordOfArgumentDropped ==
  /\ AfterTag("post") /\ last.n = 2
  /\ docs["post"].title = Undefined
  /\ tags["post"] = Arr(<<TokJs, TokBoe>>)

\* the entries of a tag field, none when it is not an array
CurrentEntries(v) == IF isArray(v) THEN v.a ELSE <<>>

NotAmong(removed, x) == ~(isString(x) /\ x.s \in removed)

\* C5: untag leaves exactly the entries of the current tag field that are no
\* lowercase word of its arguments, in their order, and adds nothing; the
\* blacklist and the stopwords play no part, so a stopword or a blacklisted
\* word that is in the tag field is removed like any other.
C5_UntagRemoves ==
  \A r \in Live : \A explicit \in Explicit :
    LET after == untag(tags, r, explicit)[r]
    IN /\ isArray(after)
       /\ after.a = SelectSeq(CurrentEntries(tags[r]),
                              LAMBDA x : NotAmong(ArgTokens(explicit), x))

C5_StopwordUntagged ==
  /\ last.kind = "untag" /\ last.rec = "post" /\ last.n > 0
  /\ tags["post"] = Arr(<<Str(<<"J", "S", " ", "j", "s">>)>>)

\* C6: in cumulative mode a tag() call that returns keeps every word of the tag field it
\* found that is neither a stopword nor blacklisted; in fresh mode it leaves
\* what it would leave had the tag field been empty or any other value, so
\* nothing of earlier calls survives unless derived or given again.
C6_MergePolicy ==
  \A r \in Live : \A explicit \in Explicit :
    LET call == tag(docs, tags, r, explicit)
        res == call.tg[r]
    IN ~call.threw =>
         IF schemas[TypeOf(r)].fresh
           THEN \A prior \in RawTags \cup {Arr(<<>>)} :
                  tag(docs, [tags EXCEPT ![r] = prior], r, explicit).tg[r] = res
           ELSE \A w \in TokensOf(tags[r]) : Kept(r, w) => w \in TagSet(res)

C6_FreshDropsEarlierTags ==
  /\ AfterTag("post") /\ last.n = 0
  /\ schemas.Post.fresh
  /\ docs["post"].title = Title
  /\ tags["post"] = Arr(<<TokBoe, TokJohn>>)

\* every way of writing a string in upper and lower case letters
RECURSIVE CaseVariants(_)
CaseVariants(s) ==
  IF s = <<>> THEN {<<>>}
  ELSE { <<c>> \o t : c \in {LowerOf(Head(s)), UpperOf(Head(s))},
                      t \in CaseVariants(Tail(s)) }

RECURSIVE ArgVariants(_)
ArgVariants(explicit) ==
  IF explicit = <<>> THEN {<<>>}
  ELSE { <<Str(c)>> \o t : c \in CaseVariants(Head(explicit).s),
                           t \in ArgVariants(Tail(explicit)) }

CaseArgLists ==
  IF Explicit = LoneArgLists THEN ArgLists(Phrases, MaxCaseArgs)
                             ELSE RefArgLists

\* C7: explicit tags that differ only in the case of their letters have the
\* same outcome and leave the same tag field, and no entry of it holds an upper case letter.
C7_CaseInsensitive ==
  \A r \in Live : \A explicit \in CaseArgLists :
    LET call == tag(docs, tags, r, explicit)
    IN /\ \A other \in ArgVariants(explicit) :
            tag(docs, tags, r, other) = call
       /\ ~call.threw =>
            \A w \in TagSet(call.tg[r]) : \A k \in DOMAIN w : w[k] \notin UpperSet

C7_MixedCaseTagStored ==
  /\ AfterTag("post") /\ last.n = 1
  /\ docs["post"].title = Undefined
  /\ tags["post"] = Arr(<<TokBoe>>)

\* C8: by a tag() call that returns, every explicit tag is split at its runs of non-word characters and
\* each word is an entry of its own; every entry is a word of one explicit
\* tag or an entry the call leaves without explicit tags, so words of
\* different arguments are never joined.
C8_PhraseSplitting ==
  \A r \in Live :
    LET bare == TagSet(TagResult(r, <<>>))
    IN \A explicit \in Explicit :
         LET call == tag(docs, tags, r, explicit)
             res == TagSet(call.tg[r])
         IN ~call.threw =>
              /\ \A i \in DOMAIN explicit : \A w \in Tokens(explicit[i].s) :
                   Kept(r, w) => w \in res
              /\ res \subseteq bare \cup ArgTokens(explicit)
              /\ \A w \in res : \A k \in DOMAIN w : w[k] \in WordChars

C8_TwoArgumentsSplit ==
  /\ AfterTag("post") /\ last.n = 2
  /\ docs["post"].title = Undefined
  /\ tags["post"] = Arr(<<TokBoe, TokJs>>)

\* the lowercase words of a field value that is a string or an array of
\* strings
FieldWords(v) ==
  IF isString(v) THEN Tokens(v.s)
  ELSE IF isArray(v) /\ \A x \in Range(v.a) : isString(x) THEN TokensOf(v)
  ELSE {}

\* the tag field of r holds the words of its taggable field t
FieldTagged(r, t) ==
  \A w \in FieldWords(get(docs[r], t.pathName)) :
    Kept(r, w) => w \in TagSet(tags[r])

TaggableFields(r) == Range(schemas[TypeOf(r)].TAGGABLE_FIELDS)

\* C9: after a tag() call without explicit tags, the tag field holds every
\* lowercase word, neither stopword nor blacklisted, of the string or array
\* of strings in each taggable field that is read with the default
\* extractor.
C9_FieldTagsDefaultExtractor ==
  \A r \in Live : (AfterTag(r) /\ last.n = 0) =>
    \A t \in TaggableFields(r) : t.extract = "words" => FieldTagged(r, t)

\* C9 as stated: the same of every registered taggable field.
C9_FieldTagsEveryField ==
  \A r \in Live : (AfterTag(r) /\ last.n = 0) =>
    \A t \in TaggableFields(r) : FieldTagged(r, t)

C9_ArrayFieldTagged ==
  /\ AfterTag("user") /\ last.n = 0
  /\ docs["user"].name.given = Given
  /\ tags["user"] = Arr(<<TokNinja, TokJs>>)

\* C10: an unresolved id in a reference field adds nothing to what tag()
\* leaves; after tag() on the owner of a populated reference the target's
\* own tag() has run and every tag of the target's tag field that the
\* owner's stopwords and blacklist allow is in the owner's tag field.
C10_ReferenceTags ==
  "user" \in Live =>
    /\ isObjectId(docs["post"].author) =>
         \A explicit \in Explicit :
           tag(docs, tags, "post", explicit).tg
             = tag([docs EXCEPT !["post"].author = Undefined],
                   tags, "post", explicit).tg
    /\ (AfterTag("post") /\ isInstance(docs["post"].author)) =>
         /\ docs["post"].author.r \in tagged
         /\ \A w \in TagSet(tags[docs["post"].author.r]) :
              Kept("post", w) => w \in TagSet(tags["post"])

\* the strings at the leaves of a map value, whatever their depth
RECURSIVE StringLeaves(_)
StringLeaves(v) ==
  IF isString(v) THEN {v.s}
  ELSE IF isMap(v) THEN UNION { StringLeaves(v.m[i].val) : i \in DOMAIN v.m }
  ELSE {}

\* the lowercase words of the string leaves of a map value
LeafTokens(v) == UNION { Tokens(s) : s \in StringLeaves(v) }

\* the keys of a map value, whatever their depth
RECURSIVE MapKeys(_)
MapKeys(v) ==
  IF isMap(v)
    THEN UNION { {v.m[i].key} \cup MapKeys(v.m[i].val) : i \in DOMAIN v.m }
    ELSE {}

\* the map in the taggable field t of r gives the words of the strings at
\* its leaves, at every depth, and of nothing else: no key and no leaf that
\* is not a string adds a word; after a tag() call every such word that is
\* neither a stopword nor blacklisted is in the tag field, and no key that is
\* not a leaf word too when nothing else gives it
MapLeavesTagged(r, t) ==
  LET value == get(docs[r], t.pathName)
      leaves == LeafTokens(value)
  IN isMap(value) =>
       /\ TokensOf(Arr(tagFromMapField(value, t.extract))) = leaves
       /\ AfterTag(r) =>
            /\ \A w \in leaves : Kept(r, w) => w \in TagSet(tags[r])
            /\ schemas[TypeOf(r)].fresh =>
                 \A k \in MapKeys(value) :
                   k \in TagSet(tags[r]) => k \in leaves

\* C11: the candidates of a map in a taggable field read with the default
\* extractor are the words of the strings at its leaves, at every depth, and
\* of nothing else, keys and leaves that are not strings left out; a tag()
\* call that returns leaves every such word that is neither a stopword nor
\* blacklisted in the tag field.
C11_MapLeavesTagged ==
  \A r \in Live : \A t \in TaggableFields(r) :
    t.extract = "words" => MapLeavesTagged(r, t)

\* C11 as stated: the same of every taggable map field, whatever its
\* extractor.
C11_MapLeavesEveryField ==
  \A r \in Live : \A t \in TaggableFields(r) : MapLeavesTagged(r, t)

C11_NestedLeafTagged ==
  /\ AfterTag("post") /\ last.n = 0
  /\ docs["post"].meta = Meta
  /\ docs["post"].published = Undefined
  /\ tags["post"] = Arr(<<TokNinja, TokJs>>)

\* the words the current value of a taggable field gives: the words of a
\* string or of an array of strings, of the string leaves of a map, of the
\* formatted date, or the tags of the tag field of a populated reference
Derivable(r, t) ==
  LET value == get(docs[r], t.pathName)
  IN IF isInstance(value) THEN TagSet(tags[value.r])
     ELSE IF isMap(value) THEN LeafTokens(value)
     ELSE IF isDate(value) THEN Tokens(format(value))
     ELSE FieldWords(value)

\* every taggable field of r is read with the default extractor
DefaultExtractors(r) == \A t \in TaggableFields(r) : t.extract = "words"

\* the hook of r's type has just run on r
AfterHook(r) == last.rec = r /\ last.kind = schemas[TypeOf(r)].hook

\* C12: attaching registers exactly one callback, at the lifecycle point of
\* the hook option ('validate' unless given), and it calls tag() without
\* explicit tags; whenever a document whose taggable fields are read with
\* the default extractor has reached that point, its tag field is canonical
\* and holds every word, neither stopword nor blacklisted, that the current
\* values of its taggable fields give.
C12_HookTags ==
  /\ \A type \in DOMAIN schemas :
       /\ Len(schemas[type].pre) = 1
       /\ schemas[type].pre[1].hook = schemas[type].hook
       /\ Len(Callbacks(type, schemas[type].hook)) = 1
       /\ \A r \in Live : TypeOf(r) = type =>
            preValidate(docs, tags, r) = tag(docs, tags, r, <<>>)
  /\ \A r \in Live : (AfterHook(r) /\ DefaultExtractors(r)) =>
       /\ Canonical(tags[r], r)
       /\ \A t \in TaggableFields(r) : \A w \in Derivable(r, t) :
            Kept(r, w) => w \in TagSet(tags[r])

\* the documents the populated references in the taggable fields of x hold
Targets(x) ==
  { get(docs[x], t.pathName).r :
      t \in { u \in TaggableFields(x) : isInstance(get(docs[x], u.pathName)) } }

\* the documents reached from those of S through such references
RECURSIVE ReachedFrom(_)
ReachedFrom(S) ==
  LET more == S \cup UNION { Targets(x) : x \in S }
  IN IF more = S THEN S ELSE ReachedFrom(more)

\* the step is a tag() call, made by the host or by a hook
TagStep == last'.kind = "tag" \/ last'.kind \in Points

\* C13: a tag() call changes no field other than tag fields, and it changes
\* the tag field of no document other than the one it is called on and the
\* ones reached from it through populated references in taggable fields,
\* whose own tag() it runs.
C13_TagWritesReachedTagFields ==
  [][TagStep =>
       /\ docs' = docs
       /\ \A x \in Live :
            tags'[x] # tags[x] => x \in ReachedFrom({last'.rec})]_vars

\* C13 as stated: a tag() call changes the tag field of the document it is
\* called on and nothing else.
C13_TagWritesOwnTagField ==
  [][TagStep =>
       /\ docs' = docs
       /\ \A x \in Live : tags'[x] # tags[x] => x = last'.rec]_vars

C13_TargetTaggedThroughOwner ==
  /\ AfterTag("post") /\ last.kind = "tag"
  /\ docs["post"].author = Inst("user")
  /\ docs["user"].name.given = Given
  /\ tags["user"] = Arr(<<TokNinja, TokJs>>)
  /\ tags["post"] = Arr(<<TokBoe, TokJohn, TokNinja, TokJs>>)

\* C14: every tag() call on a document returns, whatever the populated
\* references in the taggable fields, in a chain or in a cycle, as long as
\* no custom extractor is there to throw on the way; untag() has no call
\* that could fail to return.
C14_CallsComplete ==
  \A r \in Live :
    (\A x \in ReachedFrom({r}) : DefaultExtractors(x)) =>
      \A explicit \in Explicit : Returns(r, explicit)

\* a custom extractor that throws is applied when tag() reads r's fields
ExtractorThrows(r) ==
  \E t \in TaggableFields(r) :
    /\ t.extract = "fn_throw"
    /\ tagFromField(docs, tags, get(docs[r], t.pathName), t.extract, 1).threw

\* C15: a tag() call during which a custom extractor throws ends with the
\* exception, and a tag() call that ends with an exception leaves the tag
\* field of its document exactly as it found it.
C15_FailureAtomicity ==
  \A r \in Live : \A explicit \in Explicit :
    LET call == tag(docs, tags, r, explicit)
    IN /\ ExtractorThrows(r) => call.threw
       /\ call.threw => call.tg[r] = tags[r]

C15_ThrowLeftTagsAlone ==
  /\ last.kind = "tag" /\ last.rec = "post" /\ last.threw /\ last.n = 1
  /\ ExtractorThrows("post")
  /\ docs["post"].title = Title
  /\ tags["post"] = Arr(<<Str(<<"n", "a">>), Str(<<"J", "S", " ", "j", "s">>)>>)

\* C16: a tag() call without explicit tags on a document whose type has no
\* taggable field leaves the empty array when the mode is fresh or the tag
\* field held no tag before; in cumulative mode it leaves the words of the
\* tag field it found, stopwords and blacklisted words apart.
C16_NoFieldsNoTags ==
  \A r \in Live : TaggableFields(r) = {} =>
    LET res == TagResult(r, <<>>)
    IN /\ Returns(r, <<>>)
       /\ (schemas[TypeOf(r)].fresh \/ ~Held(tags[r])) => res = Arr(<<>>)
       /\ ~schemas[TypeOf(r)].fresh =>
            /\ Canonical(res, r)
            /\ TagSet(res) = { w \in TokensOf(tags[r]) : Kept(r, w) }

\* C16 as stated: such a call leaves the empty array.
C16_NoFieldsEmpty ==
  \A r \in Live : TaggableFields(r) = {} => TagResult(r, <<>>) = Arr(<<>>)

\* in fresh mode, tag() on a post without taggable fields whose tag field
\* held entries has left it empty
C16_EmptyWithoutFields ==
  /\ AfterTag("post") /\ last.n = 0 /\ last.had
  /\ TaggableFields("post") = {}
  /\ schemas.Post.fresh
  /\ docs["post"].title = Title
  /\ tags["post"] = Arr(<<>>)

\* the type was attached with the blacklist option given as the string w
AttachedWithString(type, w) == schemas[type].optns = [blacklist |-> w]

\* C17: a type attached with the blacklist option given as one string w
\* has the blacklist of a type attached with the list [w], so a tag() call
\* that returns leaves no word of w in the tag field.
C17_StringBlacklistAsList ==
  \A r \in Live :
    AttachedWithString(TypeOf(r), BlacklistWord) =>
      /\ schemas[TypeOf(r)].blacklist =
           taggable(schemas[TypeOf(r)].paths,
                    [blacklist |-> Arr(<<BlacklistWord>>)], <<>>).blacklist
      /\ \A explicit \in Explicit :
           Returns(r, explicit) =>
             TagSet(TagResult(r, explicit)) \cap Tokens(BlacklistWord.s) = {}

\* the values of an absent field: undefined, null, ''
Absent == {Undefined, Null, Str(<<>>)}

\* C18: a taggable field whose value is undefined, null or '' gives no
\* candidate and no exception, whatever its extractor, which is not applied;
\* a tag() call then leaves what it leaves with that field holding any other
\* absent value, and with every taggable field absent it returns and leaves
\* words of the tag field it found and of its explicit tags only.
C18_AbsentValuesSkipped ==
  \A r \in Live : \A t \in TaggableFields(r) :
    LET value == get(docs[r], t.pathName)
    IN value \in Absent =>
         /\ tagFromField(docs, tags, value, t.extract, 1) = Nothing(tags)
         /\ \A other \in {"words", "fn_none", "fn_throw"} :
              tagFromField(docs, tags, value, other, 1) = Nothing(tags)
         /\ \A explicit \in Explicit :
              LET call == tag(docs, tags, r, explicit)
              IN /\ \A v \in Absent :
                      tag([docs EXCEPT ![r] =
                             [@ EXCEPT ![t.pathName[1]] =
                                IF Len(t.pathName) = 1 THEN v
                                ELSE [@ EXCEPT ![t.pathName[2]] = v]]],
                          tags, r, explicit) = call
                 /\ (\A u \in TaggableFields(r) :
                       get(docs[r], u.pathName) \in Absent) =>
                      /\ ~call.threw
                      /\ TagSet(call.tg[r]) =
                           { w \in ArgTokens(explicit) \cup
                                   (IF schemas[TypeOf(r)].fresh THEN {}
                                    ELSE TokensOf(tags[r])) : Kept(r, w) }

C18_NullFieldNotExtracted ==
  /\ AfterTag("post") /\ last.kind = "tag" /\ last.n = 1
  /\ \E t \in TaggableFields("post") : t.extract = "fn_throw"
  /\ docs["post"].title = Null
  /\ tags["post"] = Arr(<<TokJs>>)

\* the declared fields of a type that carry the taggable option, the tag
\* field apart
Flagged(type) ==
  { f \in Range(schemas[type].paths) :
      f.taggable # "no" /\ f.pathName # <<schemas[type].path>> }

\* the declared fields of r that are not registered and that r holds
Unregistered(r) ==
  { f \in Paths(r) \ Flagged(TypeOf(r)) : f.pathName[1] \in DOMAIN docs[r] }

\* C19: in every state the registry of a type has one entry for each
\* declared field that carries the taggable option, the tag field apart, and
\* no other; the entry of a field declared with a function is that function
\* and every other entry is the default extractor; and what a tag() call
\* does never depends on the value of a field that is not registered.
C19_RegistryOfFlaggedFields ==
  /\ \A type \in DOMAIN schemas :
       LET registry == schemas[type].TAGGABLE_FIELDS
       IN /\ { registry[i].pathName : i \in DOMAIN registry } =
               { f.pathName : f \in Flagged(type) }
          /\ \A i, j \in DOMAIN registry :
               registry[i].pathName = registry[j].pathName => i = j
          /\ \A i \in DOMAIN registry : \A f \in Flagged(type) :
               f.pathName = registry[i].pathName =>
                 registry[i].extract =
                   (IF f.taggable = "yes" THEN "words" ELSE f.taggable)
  /\ \A r \in Live : \A f \in Unregistered(r) :
       \A v \in {Undefined, Title, Given} : \A explicit \in Explicit :
         tag([docs EXCEPT ![r][f.pathName[1]] = v], tags, r, explicit)
           = tag(docs, tags, r, explicit)

C19_CustomExtractorRegistered ==
  /\ AfterTag("post") /\ last.n = 0
  /\ schemas.Post.TAGGABLE_FIELDS =
       <<[pathName |-> <<"title">>, extract |-> "fn_none"],
         [pathName |-> <<"author">>, extract |-> "words"]>>
  /\ <<"tags">> \in { f.pathName : f \in Range(schemas.Post.paths) }
  /\ docs["post"].title = Title
  /\ tags["post"] = Arr(<<Str(<<"u", "n", "d", "e", "f", "i", "n", "e", "d">>)>>)

\* the calendar of years 1..9999: leap years, days of the months and the
\* days from 0001-01-01 to a date
IsLeap(y) == (y % 4 = 0 /\ y % 100 # 0) \/ y % 400 = 0

DaysIn(y, m) ==
  IF m = 2 THEN (IF IsLeap(y) THEN 29 ELSE 28)
  ELSE IF m \in {4, 6, 9, 11} THEN 30 ELSE 31

RECURSIVE DaysBeforeMonth(_, _)
DaysBeforeMonth(y, m) ==
  IF m = 1 THEN 0 ELSE DaysBeforeMonth(y, m - 1) + DaysIn(y, m - 1)

DaysSinceEpoch(date) ==
  LET y == date.y - 1
  IN 365 * y + (y \div 4) - (y \div 100) + (y \div 400)
       + DaysBeforeMonth(date.y, date.m) + (date.d - 1)

\* the lowercase names of the days, Monday first as 0001-01-01 was one, and
\* of the months
DayWords ==
  << <<"m","o","n","d","a","y">>, <<"t","u","e","s","d","a","y">>,
     <<"w","e","d","n","e","s","d","a","y">>, <<"t","h","u","r","s","d","a","y">>,
     <<"f","r","i","d","a","y">>, <<"s","a","t","u","r","d","a","y">>,
     <<"s","u","n","d","a","y">> >>

MonthWords ==
  << <<"j","a","n","u","a","r","y">>, <<"f","e","b","r","u","a","r","y">>,
     <<"m","a","r","c","h">>, <<"a","p","r","i","l">>, <<"m","a","y">>,
     <<"j","u","n","e">>, <<"j","u","l","y">>, <<"a","u","g","u","s","t">>,
     <<"s","e","p","t","e","m","b","e","r">>, <<"o","c","t","o","b","e","r">>,
     <<"n","o","v","e","m","b","e","r">>, <<"d","e","c","e","m","b","e","r">> >>

\* the weekday, the month and the year of a date, in lowercase words
DateWords(date) ==
  { DayWords[(DaysSinceEpoch(date) % 7) + 1], MonthWords[date.m],
    Decimal(date.y) }

\* the first letter of a word in upper case
Capital(w) == <<UpperOf(Head(w))>> \o Tail(w)

\* the phrase of a date in the default pattern: full weekday, full month
\* name and year
DatePhrase(date) ==
  Capital(DayWords[(DaysSinceEpoch(date) % 7) + 1]) \o <<" ">>
    \o Capital(MonthWords[date.m]) \o <<" ">> \o Decimal(date.y)

\* after a tag() call the tag field of r holds the lowercase weekday, month
\* and year of the date in its taggable field t
DateTagged(r, t) ==
  LET value == get(docs[r], t.pathName)
  IN (isDate(value) /\ AfterTag(r)) =>
       \A w \in DateWords(value) : Kept(r, w) => w \in TagSet(tags[r])

\* C20: a date in a taggable field gives nothing through the branch of
\* strings, numbers and arrays, whatever the extractor; read with the default
\* extractor it gives three candidates, the weekday, the month and the year
\* of the one phrase the date is formatted as, in that order, and a tag()
\* call that returns leaves the lowercase weekday, month and year in the tag
\* field, 'saturday', 'january' and '2000' for 2000-01-01.
C20_DateFieldTagged ==
  \A r \in Live : \A t \in TaggableFields(r) :
    LET value == get(docs[r], t.pathName)
        candidates == tagFromField(docs, tags, value, t.extract, 1).tags
    IN isDate(value) =>
         /\ tagFromAnyField(value, t.extract) = <<>>
         /\ t.extract = "words" =>
              /\ Len(candidates) = 3
              /\ Str(join(candidates, <<" ">>)) = Str(DatePhrase(value))
              /\ TokensOf(Arr(candidates)) = DateWords(value)
              /\ DateTagged(r, t)

\* C20 as stated: every taggable date field gives exactly one candidate, the
\* phrase the date is formatted as, and a tag() call leaves the lowercase
\* weekday, month and year in the tag field.
C20_DateOneCandidate ==
  \A r \in Live : \A t \in TaggableFields(r) :
    LET value == get(docs[r], t.pathName)
        candidates == tagFromField(docs, tags, value, t.extract, 1).tags
    IN isDate(value) =>
         /\ tagFromAnyField(value, t.extract) = <<>>
         /\ candidates = <<Str(DatePhrase(value))>>
         /\ DateTagged(r, t)

C20_NewYear2000Tagged ==
  /\ AfterTag("post") /\ last.n = 0
  /\ docs["post"].published = Date(2000, 1, 1)
  /\ docs["post"].meta = Undefined
  /\ tags["post"] =
       Arr(<<Str(<<"s","a","t","u","r","d","a","y">>),
             Str(<<"j","a","n","u","a","r","y">>),
             Str(<<"2","0","0","0">>)>>)

\* C21: normalizeTags applied to what normalizeTags returns for a list of
\* explicit tags, empty ones and ones without a word character among them,
\* returns the same list, entry for entry.
C21_NormalizeProjection ==
  \A explicit \in Explicit :
    normalizeTags(normalizeTags(explicit)) = normalizeTags(explicit)

\* the option of a type as the caller gave it, or else the value given here
Option(type, name, default) ==
  IF name \in DOMAIN schemas[type].optns THEN schemas[type].optns[name]
                                         ELSE default

\* C22: attaching adds one path of type array of strings, named by the
\* option path or 'tags', which is the tag path of the type; its index,
\* searchable, duplicate and hide options are those of the caller or else
\* true, true, false and true.
C22_TagPathAdded ==
  \A type \in DOMAIN schemas :
    LET added == schemas[type].added
    IN /\ added.type = "[String]"
       /\ added.pathName = Option(type, "path", "tags")
       /\ schemas[type].path = added.pathName
       /\ added.index = Option(type, "index", True)
       /\ added.searchable = Option(type, "searchable", True)
       /\ added.duplicate = Option(type, "duplicate", False)
       /\ added.hide = Option(type, "hide", True)

C22_KeywordsPathAdded ==
  /\ AfterTag("user") /\ last.kind = "tag"
  /\ schemas.User.optns =
       [path |-> "keywords", index |-> Str(<<"t", "e", "x", "t">>)]
  /\ schemas.User.added.pathName = "keywords"
  /\ schemas.User.added.index = Str(<<"t", "e", "x", "t">>)
  /\ schemas.User.added.searchable = True
  /\ docs["user"].name.given = Given
  /\ tags["user"] = Arr(<<TokNinja, TokJs>>)

\* the entries of a sequence at the given places, in their order
At(seq, places) ==
  [k \in 1..Cardinality(places) |->
     seq[CHOOSE i \in places : Cardinality({ j \in places : j < i }) = k - 1]]

\* the lowercase words of a string, in their order
TokenSeq(s) ==
  LET starts == { i \in DOMAIN s :
                    /\ s[i] \in WordChars
                    /\ i = 1 \/ s[i - 1] \notin WordChars }
      end(i) == CHOOSE j \in i..Len(s) :
                  /\ \A k \in i..j : s[k] \in WordChars
                  /\ j = Len(s) \/ s[j + 1] \notin WordChars
      run(i) == [k \in 1..(end(i) - i + 1) |-> LowerOf(s[i + k - 1])]
  IN At([i \in DOMAIN s |-> run(i)], starts)

\* the lowercase words of the strings of a list of candidates, in their
\* order; an entry that is no string gives none
RECURSIVE TokensInOrder(_)
TokensInOrder(list) ==
  IF list = <<>> THEN <<>>
  ELSE (IF isString(Head(list)) THEN TokenSeq(Head(list).s) ELSE <<>>)
         \o TokensInOrder(Tail(list))

\* a sequence without the later occurrences of its entries
FirstSeen(seq) ==
  At(seq, { i \in DOMAIN seq : \A j \in 1..(i - 1) : seq[j] # seq[i] })

\* a sequence without the entries of a set
Minus(seq, set) == At(seq, { i \in DOMAIN seq : seq[i] \notin set })

\* the tag field r has before a call, as the list tag() starts from
Prior(r) ==
  IF schemas[TypeOf(r)].fresh \/ ~isArray(tags[r]) THEN <<>> ELSE tags[r].a

\* the candidates of the registered taggable fields of r
FieldCandidates(r) ==
  tagFromFields(docs, tags, r, schemas[TypeOf(r)].TAGGABLE_FIELDS, 1).tags

\* the list of tag() before any filter: prior tags, explicit tags, field
\* candidates
Accumulated(r, explicit) == Prior(r) \o explicit \o FieldCandidates(r)

\* the tag field the pipeline describes
Pipeline(r, explicit) ==
  LET tokens == FirstSeen(TokensInOrder(Accumulated(r, explicit)))
      kept == Minus(Minus(tokens, BlacklistTokens(r)), StopTokens)
  IN Arr([i \in DOMAIN kept |-> Str(kept[i])])

\* the tag field with the stopwords subtracted from the normalized list
\* before the normalized blacklist
StopwordsFirst(r, explicit) ==
  Arr(difference(
        Arr(removeStopwords(normalizeTags(<<Arr(Accumulated(r, explicit))>>))),
        normalizeTags(schemas[TypeOf(r)].blacklist)))

\* C23: a tag() call that returns sets the tag field to the lowercase words
\* of the prior tags (none in fresh mode), the explicit tags and the field
\* candidates, without later duplicates, without the words of the blacklist
\* and without the stopwords; subtracting the stopwords before the blacklist
\* gives the same tag field.
C23_PipelineResult ==
  \A r \in Live : \A explicit \in Explicit : Returns(r, explicit) =>
    /\ TagResult(r, explicit) = Pipeline(r, explicit)
    /\ TagResult(r, explicit) = StopwordsFirst(r, explicit)

\* the decimal numeral of a natural number
RECURSIVE Numeral(_)
Numeral(n) ==
  LET digit == <<(<<"0", "1", "2", "3", "4", "5", "6", "7", "8", "9">>)[(n % 10) + 1]>>
  IN IF n < 10 THEN digit ELSE Numeral(n \div 10) \o digit

\* the lowercase words of a string, of a number or of an array of strings
\* and numbers
ScalarWords(v) ==
  IF isString(v) THEN Tokens(v.s)
  ELSE IF isNumber(v) THEN {Numeral(v.n)}
  ELSE IF isArray(v)
    THEN UNION { IF isString(x) THEN Tokens(x.s)
                 ELSE IF isNumber(x) THEN {Numeral(x.n)} ELSE {} :
                 x \in Range(v.a) }
  ELSE {}

\* C24: after a tag() call, the tag field holds every lowercase word,
\* neither stopword nor blacklisted, of the string, number (0 too) or array
\* in each taggable field read with the default extractor, words of one
\* character and of digits as they are.
C24_ScalarFieldsTagged ==
  \A r \in Live : AfterTag(r) =>
    \A t \in TaggableFields(r) : t.extract = "words" =>
      \A w \in ScalarWords(get(docs[r], t.pathName)) :
        Kept(r, w) => w \in TagSet(tags[r])

\* the populated references of r in its taggable fields read with the
\* default extractor
Populated(r) ==
  { get(docs[r], t.pathName).r :
      t \in { f \in TaggableFields(r) :
                f.extract = "words" /\ isInstance(get(docs[r], f.pathName)) } }

\* C25: after tag() on the owner of a populated reference, the owner's tag
\* field holds every tag, neither stopword nor blacklisted for the owner,
\* that the tag path of the target's own type holds, whatever the name of
\* that path; with a target attached with another path than 'tags' too.
C25_TargetTagPathHarvested ==
  \A r \in Live : AfterTag(r) =>
    \A target \in Populated(r) :
      \A w \in TagSet(tags[target]) : Kept(r, w) => w \in TagSet(tags[r])

\* the text of a string or of an array of strings in a template literal
RECURSIVE TextOf(_)
TextOf(v) ==
  IF isString(v) THEN v.s
  ELSE IF isArray(v) /\ v.a # <<>>
    THEN TextOf(Head(v.a))
           \o (IF Len(v.a) > 1 THEN <<",">> \o TextOf(Arr(Tail(v.a)))
                               ELSE <<>>)
  ELSE <<>>

\* the string leaves of the entries of a map, in their order
RECURSIVE LeafSeq(_)
LeafSeq(entries) ==
  IF entries = <<>> THEN <<>>
  ELSE (IF isString(Head(entries).val) THEN <<Head(entries).val>>
        ELSE IF isMap(Head(entries).val) THEN LeafSeq(Head(entries).val.m)
        ELSE <<>>)
         \o LeafSeq(Tail(entries))

\* the values extracted from the value of a field: each string leaf of a
\* map, the tag list the referenced document has after its own tag(), the
\* phrase of a date, or the string, number or array itself
Extracted(value) ==
  IF isMap(value) THEN LeafSeq(value.m)
  ELSE IF isInstance(value) THEN <<TagResult(value.r, <<>>)>>
  ELSE IF isDate(value) THEN <<Str(format(value))>>
  ELSE <<value>>

\* what the custom extractors return: nothing, or the text of the value
\* followed by 'js'
Custom(extract, v) ==
  IF extract = "fn_none" THEN Undefined ELSE Str(TextOf(v) \o <<"j", "s">>)

\* a taggable field of r with a custom extractor that returns, and a value
\* that is there
CustomField(r, t) ==
  /\ t.extract \in {"fn_none", "fn_mark"}
  /\ get(docs[r], t.pathName) \notin Absent
  /\ ~isObjectId(get(docs[r], t.pathName))
  /\ isInstance(get(docs[r], t.pathName)) =>
       Returns(get(docs[r], t.pathName).r, <<>>)

\* C26: the candidates of a taggable field with a custom extractor and a
\* value that is there are what the extractor returns for the extracted
\* value: the string or array itself, the phrase of the date, the tag list
\* of the referenced document, each string leaf of a map in turn; the words
\* of the raw value are no candidates.
C26_CustomExtractorCandidates ==
  \A r \in Live : \A t \in TaggableFields(r) : CustomField(r, t) =>
    tagFromField(docs, tags, get(docs[r], t.pathName), t.extract, 1).tags
      = [i \in DOMAIN Extracted(get(docs[r], t.pathName)) |->
           Custom(t.extract, Extracted(get(docs[r], t.pathName))[i])]

\* the words of the accumulated list of a tag() call, first occurrences
\* only, in their order
SeenInOrder(r, explicit) == FirstSeen(TokensInOrder(Accumulated(r, explicit)))

\* the entries of a tag field that are among the given words, in their order
Among(v, seq) ==
  At([i \in DOMAIN v.a |-> IF isString(v.a[i]) THEN v.a[i].s ELSE <<>>],
     { i \in DOMAIN v.a : isString(v.a[i]) /\ v.a[i].s \in Range(seq) })

\* C27: the tag field a tag() call writes lists the words of the prior
\* tags, then of the explicit tags in argument order, then of the field
\* candidates in the order of the fields, each at its first occurrence; in
\* cumulative mode the entries of a canonical tag field come first, in the
\* order they had, before every entry the call adds.
C27_FirstSeenOrder ==
  \A r \in Live : \A explicit \in Explicit :
    LET call == tag(docs, tags, r, explicit)
        seen == SeenInOrder(r, explicit)
    IN ~call.threw =>
         /\ Among(call.tg[r], seen)
              = Minus(Minus(seen, BlacklistTokens(r)), StopTokens)
         /\ (~schemas[TypeOf(r)].fresh /\ Canonical(tags[r], r)) =>
              /\ Len(call.tg[r].a) >= Len(tags[r].a)
              /\ SubSeq(call.tg[r].a, 1, Len(tags[r].a)) = tags[r].a

C27_ExplicitBeforeFields ==
  /\ AfterTag("post") /\ last.kind = "tag" /\ last.n = 2
  /\ ~schemas.Post.fresh
  /\ docs["post"].title = Title
  /\ tags["post"] = Arr(<<TokBoe, TokJs, TokJohn>>)

\* the step is made by untag() on r
UntagStep(r) == last'.kind = "untag" /\ last'.rec = r

\* C28: in cumulative mode no step but untag() on the document removes an
\* entry of a canonical tag field: every tag() call, made by the host or by
\* the hook, on the document or on one that refers to it, ends with every
\* entry still there; so do the words of an earlier value of a field after
\* the field has changed and tag() has run again.
C28_CumulativeMonotone ==
  [][\A r \in Live :
       (/\ ~schemas[TypeOf(r)].fresh
        /\ Canonical(tags[r], r)
        /\ ~UntagStep(r))
         => /\ isArray(tags'[r])
            /\ TagSet(tags[r]) \subseteq TagSet(tags'[r])]_vars

C28_WordsOfEarlierTitleKept ==
  /\ AfterTag("post") /\ last.n = 0
  /\ ~schemas.Post.fresh
  /\ docs["post"].title = Undefined
  /\ docs["post"].author = Undefined
  /\ tags["post"] = Arr(<<TokBoe, TokJohn>>)

\* the explicit argument lists of one tag
Singles == { explicit \in Explicit : Len(explicit) = 1 }

\* the entries of r's tag field after tag(...second), called when an
\* earlier call has returned
TagSetAfter(earlier, r, second) ==
  TagSet(tag(docs, earlier.tg, r, second).tg[r])

\* C29: in cumulative mode, from any state, tag(a) then tag(b), tag(b) then
\* tag(a) and the one call tag(a, b) leave tag fields with the same set of
\* entries.
C29_TagCommutes ==
  \A r \in Live : ~schemas[TypeOf(r)].fresh =>
    \A a \in Singles : \A b \in Singles :
      LET first == tag(docs, tags, r, a)
          second == tag(docs, tags, r, b)
          thenSecond == TagSetAfter(first, r, b)
      IN (~first.threw /\ ~second.threw) =>
           /\ thenSecond = TagSetAfter(second, r, a)
           /\ thenSecond = TagSet(TagResult(r, a \o b))

C29_TwoCallsAsOne ==
  /\ AfterTag("post") /\ last.kind = "tag" /\ last.n = 1
  /\ ~schemas.Post.fresh
  /\ docs["post"].title = Undefined
  /\ tags["post"] = Arr(<<TokBoe, TokJs>>)
  /\ TagSet(tags["post"])
       = TagSet(tag(docs, [tags EXCEPT !["post"] = Undefined], "post",
                    <<Str(<<"J", "s", "-", "n", "a">>),
                      Str(<<"B", "o", "e">>)>>).tg["post"])

====
